---- MODULE Spec2Model ----
(***************************************************************************)
(* fluxplayercli: the streaming core of src/main.rs.                       *)
(*                                                                         *)
(* Three threads share a PlayerStatus (four atomics) and one SPSC ring:    *)
(*   - the main thread (Orchestrator + Feeder): opens and starts the       *)
(*     PortAudio stream, stores is_playing, spawns the observer, runs the  *)
(*     packet/decode loop and the resampler flush through send_audio,      *)
(*     stores is_decoding = false, polls is_playing, joins, stops, closes; *)
(*   - the PortAudio callback: pop_slice, gain / zero fill, frames_played, *)
(*     completion check;                                                   *)
(*   - the observer thread: polls is_playing and prints.                   *)
(*                                                                         *)
(* Every atomic access and every ring call is one step, so all             *)
(* interleavings of the threads are explored (sequentially consistent).    *)
(*                                                                         *)
(* Samples are modelled as integers. The k-th sample the decoder hands to  *)
(* send_audio has the value SampleValue(k), all distinct, non-zero and     *)
(* even, so that the multiplication by GAIN = 0.5 is exact.                *)
(***************************************************************************)
EXTENDS Integers, Sequences, FiniteSets, TLC

\* ---------------------------------------------------------------- constants

\* const CHANNELS: i32 = 2
CHANNELS == 2

\* const SAMPLE_RATE: f64 = 48000.0, scaled down; it only sizes the ring.
SAMPLE_RATE == 3

\* const FRAMES_PER_BUFFER: u32 = 512, scaled down.
FRAMES_PER_BUFFER == 2

\* const BUFFER_SIZE: usize = SAMPLE_RATE as usize * CHANNELS as usize
BUFFER_SIZE == SAMPLE_RATE * CHANNELS

\* const GAIN: f32 = 0.5, as the divisor 1 / GAIN.
GAIN_DIVISOR == 2

\* ------------------------------------------------------------------- bounds

\* Units of the decoder's sequence: packets the demuxer yields before
\* packets.next() returns None, plus frames swr.flush() yields after them.
MaxUnits == 2

\* Callback invocations explored (frames_played is otherwise unbounded).
MaxCallbacks == 3

\* Sample-frames in one decoded audio frame (data.len() / CHANNELS): none,
\* one, as many as the ring holds, more than the ring holds.
FrameLens == {0, 1, SAMPLE_RATE, SAMPLE_RATE + 1}

\* Contents an output buffer can hold on entry to the callback.
GarbageValues == {0, 7}

\* ------------------------------------------------------------------- state

VARIABLES
    \* PlayerStatus
    is_decoding, is_playing, frames_decoded, frames_played,
    \* the ring buffer (rb_tx / rb_rx), oldest sample first
    ring,
    \* main thread
    pc,            \* position of the main thread
    resample,      \* let resample = ...
    packets,       \* packets consumed from input.packets()
    flushes,       \* frames obtained from swr.flush()
    ret,           \* where send_audio returns to: "packets" or "flush"
    data,          \* send_audio: the frame's samples
    sent_size,     \* send_audio: sent_size
    current_size,  \* send_audio: current_size
    slept,         \* send_audio: a sleep preceded the coming push attempt
    \* callback
    cpc,           \* position inside the callback ("idle" between invocations)
    sink,          \* "closed", "open", "active", "complete", "stopped"
    buffer,        \* the output buffer of the current / last invocation
    recv_size,     \* callback: recv_size
    idx,           \* callback: idx
    dec_read,      \* callback: value loaded from is_decoding
    empty_read,    \* callback: value of rb_rx.is_empty() (FALSE if not evaluated)
    result,        \* last callback result: "none", "Continue", "Complete"
    \* observer thread
    opc,
    \* history (not read by the program)
    forwarded,     \* frames handed to send_audio
    produced,      \* samples of the frames handed to send_audio
    pushed,        \* samples accepted by push_slice
    popped,        \* every sample returned by pop_slice, in order
    popped_now,    \* the samples popped by the current / last invocation
    fp_entry,      \* frames_played on entry to the current / last invocation
    calls,         \* callback invocations so far
    attempted,     \* a push attempt was made on the current frame
    gap,           \* shortfalls of the pops so far: "none", "partial", "empty", "underrun"
    errors         \* units of the packet loop that failed to decode or resample

status == <<is_decoding, is_playing, frames_decoded, frames_played>>
mainv  == <<pc, resample, packets, flushes, ret, data, sent_size, current_size, slept>>
cbv    == <<cpc, buffer, recv_size, idx, dec_read, empty_read, result>>
histv  == <<forwarded, produced, pushed, popped, popped_now, fp_entry, calls, attempted, gap>>
vars   == <<status, ring, mainv, cbv, sink, opc, histv, errors>>

\* ------------------------------------------------------------------ helpers

Min(a, b) == IF a < b THEN a ELSE b

\* The value of the k-th sample of the decoder's output.
SampleValue(k) == 2 * k

\* The samples of a decoded frame of n sample-frames, given that `before`
\* samples were produced earlier.
FrameData(before, n) == [i \in 1..(n * CHANNELS) |-> SampleValue(before + i)]

\* &data[sent_size..]
RestDup(d, sent) == d
Rest(d, sent) == SubSeq(d, sent + 1, Len(d))

\* rb_tx.push_slice(slice): the number of samples accepted.
PushCountOffByOne(rb, slice) == Min(BUFFER_SIZE + 1 - Len(rb), Len(slice))
PushCount(rb, slice) == Min(BUFFER_SIZE - Len(rb), Len(slice))

\* rb_rx.pop_slice(buffer): the number of samples returned.
PopCount(rb, buflen) == Min(Len(rb), buflen)

\* current_size / CHANNELS as usize
DecodedDeltaSamples(cur) == cur
DecodedDelta(cur) == cur \div CHANNELS

\* buffer[idx] *= GAIN
ApplyGain(x) == x \div GAIN_DIVISOR

\* if idx >= recv_size { buffer[idx] = 0f32 } else { buffer[idx] *= GAIN }
OutSampleNoSilence(i, recv, x) == ApplyGain(x)
OutSample(i, recv, x) == IF i >= recv THEN 0 ELSE ApplyGain(x)

\* frames_played.fetch_add(1, SeqCst), once per iterated frame
PlayedDeltaRealOnly(i, recv) == IF i <= recv /\ recv > 0 THEN 1 ELSE 0
PlayedDelta(i, recv) == 1

\* !is_decoding.load(SeqCst) && rb_rx.is_empty() && recv_size == 0
CompletionNoRecv(dec, empty, recv) == ~dec /\ empty
Completion(dec, empty, recv) == ~dec /\ empty /\ recv = 0

\* The shortfalls of the pops so far, after a pop of n samples into a buffer
\* of buflen: only full pops ("none"), full pops then one partial pop
\* ("partial"), those then one empty pop ("empty"), or a short pop that was
\* followed by another pop ("underrun").
NextGap(g, n, buflen) ==
    CASE g = "none" -> (IF n = buflen THEN "none" ELSE IF n > 0 THEN "partial" ELSE "empty")
      [] g = "partial" -> (IF n = 0 THEN "empty" ELSE "underrun")
      [] OTHER -> "underrun"

\* --------------------------------------------------------------------- Init

\* PlayerStatus::new(), RingBuffer::new(BUFFER_SIZE), the threads not started.
Init ==
    /\ is_decoding = FALSE
    /\ is_playing = FALSE
    /\ frames_decoded = 0
    /\ frames_played = 0
    /\ ring = <<>>
    /\ pc = "open"
    /\ resample \in BOOLEAN
    /\ packets = 0
    /\ flushes = 0
    /\ ret = "packets"
    /\ data = <<>>
    /\ sent_size = 0
    /\ current_size = 0
    /\ slept = FALSE
    /\ cpc = "idle"
    /\ sink = "closed"
    /\ buffer = <<>>
    /\ recv_size = 0
    /\ idx = 0
    /\ dec_read = FALSE
    /\ empty_read = FALSE
    /\ result = "none"
    /\ opc = "none"
    /\ forwarded = 0
    /\ produced = 0
    /\ pushed = 0
    /\ popped = <<>>
    /\ popped_now = <<>>
    /\ fp_entry = 0
    /\ calls = 0
    /\ attempted = FALSE
    /\ gap = "none"
    /\ errors = 0

\* A panic of the main thread ends the process; so does main returning.
Running == pc \notin {"panicked", "done"}

\* -------------------------------------------------------------- main thread

\* pa.open_non_blocking_stream(pa_settings, callback) succeeds
OpenOk ==
    /\ pc = "open"
    /\ pc' = "start"
    /\ sink' = "open"
    /\ UNCHANGED <<status, ring, resample, packets, flushes, ret, data, sent_size,
                   current_size, slept, cbv, opc, histv, errors>>

\* ... .expect("Could not open output device.") panics
OpenFail ==
    /\ pc = "open"
    /\ pc' = "panicked"
    /\ UNCHANGED <<status, ring, resample, packets, flushes, ret, data, sent_size,
                   current_size, slept, cbv, sink, opc, histv, errors>>

\* pa_stream.start().is_ok(): from here on the sink invokes the callback
StartOk ==
    /\ pc = "start"
    /\ pc' = "store_playing"
    /\ sink' = "active"
    /\ UNCHANGED <<status, ring, resample, packets, flushes, ret, data, sent_size,
                   current_size, slept, cbv, opc, histv, errors>>

StartFailStoresPlaying ==
    /\ pc = "start"
    /\ is_playing' = TRUE
    /\ pc' = "panicked"
    /\ UNCHANGED <<is_decoding, frames_decoded, frames_played, ring, resample, packets,
                   flushes, ret, data, sent_size, current_size, slept, cbv, sink, opc,
                   histv, errors>>

\* else { panic!("Play failed!") }
StartFail ==
    /\ pc = "start"
    /\ pc' = "panicked"
    /\ UNCHANGED <<status, ring, resample, packets, flushes, ret, data, sent_size,
                   current_size, slept, cbv, sink, opc, histv, errors>>

\* status.is_playing.store(true, SeqCst)
StorePlaying ==
    /\ pc = "store_playing"
    /\ is_playing' = TRUE
    /\ pc' = "spawn"
    /\ UNCHANGED <<is_decoding, frames_decoded, frames_played, ring, resample, packets,
                   flushes, ret, data, sent_size, current_size, slept, cbv, sink, opc,
                   histv, errors>>

\* std::thread::spawn(move || { ... })
SpawnObserver ==
    /\ pc = "spawn"
    /\ opc' = "check"
    /\ pc' = "packets"
    /\ UNCHANGED <<status, ring, resample, packets, flushes, ret, data, sent_size,
                   current_size, slept, cbv, sink, histv, errors>>

\* One turn of the packet loop that forwards nothing; only the count moves.
NoFrame ==
    /\ pc = "packets"
    /\ packets < MaxUnits
    /\ packets' = packets + 1
    /\ UNCHANGED <<status, ring, pc, resample, flushes, ret, data, sent_size,
                   current_size, slept, cbv, sink, opc, histv>>

\* read_stream.index() != stream_index, or audio.decode(..) returned Ok(false)
PacketSkipped == NoFrame /\ UNCHANGED errors

\* audio.decode(..) returned Err(e): eprintln!, next packet
DecodeErrorAborts ==
    /\ pc = "packets"
    /\ packets < MaxUnits
    /\ packets' = packets + 1
    /\ pc' = "flush"
    /\ errors' = errors + 1
    /\ UNCHANGED <<status, ring, resample, flushes, ret, data, sent_size,
                   current_size, slept, cbv, sink, opc, histv>>
DecodeError == NoFrame /\ errors' = errors + 1

\* swr.run(&decode_frame, &mut swr_frame) failed: nothing is sent, next packet
ResampleError == resample /\ NoFrame /\ errors' = errors + 1

\* send_audio is entered with a frame of n sample-frames
EnterSendAudio(n, back) ==
    /\ data' = FrameData(produced, n)
    /\ forwarded' = forwarded + 1
    /\ produced' = produced + n * CHANNELS
    /\ sent_size' = 0
    /\ current_size' = 0
    /\ slept' = FALSE
    /\ attempted' = FALSE
    /\ ret' = back
    /\ pc' = "sa_loop"

\* audio.decode(..) returned Ok(true) (and swr.run succeeded): send_audio(frame)
PacketFrame ==
    /\ pc = "packets"
    /\ packets < MaxUnits
    /\ packets' = packets + 1
    /\ \E n \in FrameLens : EnterSendAudio(n, "packets")
    /\ UNCHANGED <<status, ring, resample, flushes, cbv, sink, opc, pushed, popped,
                   popped_now, fp_entry, calls, gap, errors>>

PacketsEndStoresFalse ==
    /\ pc = "packets"
    /\ is_decoding' = FALSE
    /\ pc' = "flush"
    /\ UNCHANGED <<is_playing, frames_decoded, frames_played, ring, resample, packets,
                   flushes, ret, data, sent_size, current_size, slept, cbv, sink, opc,
                   histv, errors>>

\* packets.next() is None (or Some(Err)): the while let ends
PacketsEnd ==
    /\ pc = "packets"
    /\ pc' = "flush"
    /\ UNCHANGED <<status, ring, resample, packets, flushes, ret, data, sent_size,
                   current_size, slept, cbv, sink, opc, histv, errors>>

\* resample && delay().is_some(), and swr.flush(..) is Ok(Some(_)): send_audio
FlushFrame ==
    /\ pc = "flush"
    /\ resample
    /\ packets + flushes < MaxUnits
    /\ flushes' = flushes + 1
    /\ \E n \in FrameLens : EnterSendAudio(n, "flush")
    /\ UNCHANGED <<status, ring, resample, packets, cbv, sink, opc, pushed, popped,
                   popped_now, fp_entry, calls, gap, errors>>

\* no resampler, no delay, or flush yields nothing more
FlushEnd ==
    /\ pc = "flush"
    /\ pc' = "store_decoding"
    /\ UNCHANGED <<status, ring, resample, packets, flushes, ret, data, sent_size,
                   current_size, slept, cbv, sink, opc, histv, errors>>

\* while sent_size < data.len() { if sent_size > 0 { sleep } ... }
SendLoop ==
    /\ pc = "sa_loop"
    /\ pc' = IF sent_size < Len(data)
             THEN (IF sent_size > 0 THEN "sa_sleep" ELSE "sa_push")
             ELSE "cas"
    /\ UNCHANGED <<status, ring, resample, packets, flushes, ret, data, sent_size,
                   current_size, slept, cbv, sink, opc, histv, errors>>

\* sleep(10_000)
SendSleep ==
    /\ pc = "sa_sleep"
    /\ slept' = TRUE
    /\ pc' = "sa_push"
    /\ UNCHANGED <<status, ring, resample, packets, flushes, ret, data, sent_size,
                   current_size, cbv, sink, opc, histv, errors>>

\* current_size = rb_tx.push_slice(&data[sent_size..]); sent_size += current_size;
\* assert_eq!(sent_size % CHANNELS, 0)
SendPush ==
    /\ pc = "sa_push"
    /\ LET slice == Rest(data, sent_size)
           n == PushCount(ring, slice)
       IN /\ ring' = ring \o SubSeq(slice, 1, n)
          /\ current_size' = n
          /\ sent_size' = sent_size + n
          /\ pushed' = pushed + n
          /\ pc' = IF (sent_size + n) % CHANNELS = 0 THEN "sa_add" ELSE "panicked"
    /\ slept' = FALSE
    /\ attempted' = TRUE
    /\ UNCHANGED <<status, resample, packets, flushes, ret, data, cbv, sink, opc,
                   forwarded, produced, popped, popped_now, fp_entry, calls, gap,
                   errors>>

SendCountWrongCounter ==
    /\ pc = "sa_add"
    /\ frames_played' = frames_played + DecodedDelta(current_size)
    /\ pc' = "sa_loop"
    /\ UNCHANGED <<is_decoding, is_playing, frames_decoded, ring, resample, packets,
                   flushes, ret, data, sent_size, current_size, slept, cbv, sink, opc,
                   histv, errors>>

\* status.frames_decoded.fetch_add(current_size / CHANNELS, Relaxed)
SendCount ==
    /\ pc = "sa_add"
    /\ frames_decoded' = frames_decoded + DecodedDelta(current_size)
    /\ pc' = "sa_loop"
    /\ UNCHANGED <<is_decoding, is_playing, frames_played, ring, resample, packets,
                   flushes, ret, data, sent_size, current_size, slept, cbv, sink, opc,
                   histv, errors>>

\* is_decoding.compare_exchange_weak(false, true, SeqCst, Relaxed) takes effect
\* (or finds true already)
MarkDecoding ==
    /\ pc = "cas"
    /\ is_decoding' = TRUE
    /\ pc' = ret
    /\ UNCHANGED <<is_playing, frames_decoded, frames_played, ring, resample, packets,
                   flushes, ret, data, sent_size, current_size, slept, cbv, sink, opc,
                   histv, errors>>

\* compare_exchange_weak fails spuriously: the result is discarded (let _ =)
MarkDecodingSpurious ==
    /\ pc = "cas"
    /\ is_decoding = FALSE
    /\ pc' = ret
    /\ UNCHANGED <<status, ring, resample, packets, flushes, ret, data, sent_size,
                   current_size, slept, cbv, sink, opc, histv, errors>>

\* status.is_decoding.store(false, Relaxed)
StoreDecodingFalse ==
    /\ pc = "store_decoding"
    /\ is_decoding' = FALSE
    /\ pc' = "poll"
    /\ UNCHANGED <<is_playing, frames_decoded, frames_played, ring, resample, packets,
                   flushes, ret, data, sent_size, current_size, slept, cbv, sink, opc,
                   histv, errors>>

\* while status.is_playing.load(Relaxed) { sleep(1_000_000) }
PollPlaying ==
    /\ pc = "poll"
    /\ pc' = IF is_playing THEN "poll_sleep" ELSE "join"
    /\ UNCHANGED <<status, ring, resample, packets, flushes, ret, data, sent_size,
                   current_size, slept, cbv, sink, opc, histv, errors>>

PollSleep ==
    /\ pc = "poll_sleep"
    /\ pc' = "poll"
    /\ UNCHANGED <<status, ring, resample, packets, flushes, ret, data, sent_size,
                   current_size, slept, cbv, sink, opc, histv, errors>>

JoinObserverNoWait ==
    /\ pc = "join"
    /\ pc' = "stop"
    /\ UNCHANGED <<status, ring, resample, packets, flushes, ret, data, sent_size,
                   current_size, slept, cbv, sink, opc, histv, errors>>

\* othread_handle.join().unwrap(): returns once the observer has ended
JoinObserver ==
    /\ pc = "join"
    /\ opc = "done"
    /\ pc' = "stop"
    /\ UNCHANGED <<status, ring, resample, packets, flushes, ret, data, sent_size,
                   current_size, slept, cbv, sink, opc, histv, errors>>

\* pa_stream.stop().unwrap()
StopSink ==
    /\ pc = "stop"
    /\ cpc = "idle"
    /\ sink' = "stopped"
    /\ pc' = "close"
    /\ UNCHANGED <<status, ring, resample, packets, flushes, ret, data, sent_size,
                   current_size, slept, cbv, opc, histv, errors>>

\* pa_stream.close().unwrap()
CloseSink ==
    /\ pc = "close"
    /\ sink' = "closed"
    /\ pc' = "done"
    /\ UNCHANGED <<status, ring, resample, packets, flushes, ret, data, sent_size,
                   current_size, slept, cbv, opc, histv, errors>>

\* ----------------------------------------------------------------- callback

\* The sink calls back while the stream is active and the callback has not
\* returned Complete.
\* let recv_size = rb_rx.pop_slice(buffer); assert_eq!(recv_size % CHANNELS, 0)
CallbackPop ==
    /\ Running
    /\ sink = "active"
    /\ cpc = "idle"
    /\ calls < MaxCallbacks
    /\ \E g \in GarbageValues :
         LET buflen == FRAMES_PER_BUFFER * CHANNELS
             n == PopCount(ring, buflen)
         IN /\ buffer' = [i \in 1..buflen |-> IF i <= n THEN ring[i] ELSE g]
            /\ ring' = SubSeq(ring, n + 1, Len(ring))
            /\ recv_size' = n
            /\ popped' = popped \o SubSeq(ring, 1, n)
            /\ popped_now' = SubSeq(ring, 1, n)
            /\ gap' = NextGap(gap, n, buflen)
            /\ cpc' = IF n % CHANNELS = 0 THEN "frames" ELSE "panicked"
    /\ idx' = 0
    /\ dec_read' = FALSE
    /\ empty_read' = FALSE
    /\ result' = "running"
    /\ fp_entry' = frames_played
    /\ calls' = calls + 1
    /\ UNCHANGED <<status, mainv, sink, opc, forwarded, produced, pushed, attempted,
                   errors>>

\* One turn of for _ in 0..frames: the inner loop over the channels, then
\* status_cb.frames_played.fetch_add(1, SeqCst)
CallbackFrame ==
    /\ Running
    /\ cpc = "frames"
    /\ buffer' = [i \in 1..Len(buffer) |->
                    IF idx < i /\ i <= idx + CHANNELS
                    THEN OutSample(i - 1, recv_size, buffer[i])
                    ELSE buffer[i]]
    /\ idx' = idx + CHANNELS
    /\ frames_played' = frames_played + PlayedDelta(idx + CHANNELS, recv_size)
    /\ cpc' = IF idx + CHANNELS < FRAMES_PER_BUFFER * CHANNELS
              THEN "frames" ELSE "load_decoding"
    /\ UNCHANGED <<is_decoding, is_playing, frames_decoded, ring, mainv, recv_size,
                   dec_read, empty_read, result, sink, opc, histv, errors>>

\* !status_cb.is_decoding.load(SeqCst) && ...: when it reads true the
\* condition is false and the callback returns pa::Continue
CallbackLoadDecoding ==
    /\ Running
    /\ cpc = "load_decoding"
    /\ dec_read' = is_decoding
    /\ IF is_decoding
       THEN cpc' = "idle" /\ result' = "Continue"
       ELSE cpc' = "check_empty" /\ result' = result
    /\ UNCHANGED <<status, ring, mainv, buffer, recv_size, idx, empty_read, sink, opc,
                   histv, errors>>

\* ... && rb_rx.is_empty() && recv_size == 0
CallbackCheckEmpty ==
    /\ Running
    /\ cpc = "check_empty"
    /\ empty_read' = (ring = <<>>)
    /\ IF Completion(dec_read, ring = <<>>, recv_size)
       THEN cpc' = "store_playing" /\ result' = result
       ELSE cpc' = "idle" /\ result' = "Continue"
    /\ UNCHANGED <<status, ring, mainv, buffer, recv_size, idx, dec_read, sink, opc,
                   histv, errors>>

\* status_cb.is_playing.store(false, SeqCst); return pa::Complete
CallbackComplete ==
    /\ Running
    /\ cpc = "store_playing"
    /\ is_playing' = FALSE
    /\ result' = "Complete"
    /\ sink' = "complete"
    /\ cpc' = "idle"
    /\ UNCHANGED <<is_decoding, frames_decoded, frames_played, ring, mainv, buffer,
                   recv_size, idx, dec_read, empty_read, opc, histv, errors>>

\* ----------------------------------------------------------------- observer

\* while status_o.is_playing.load(Relaxed) { ... } print!("\n")
ObserverCheck ==
    /\ Running
    /\ opc = "check"
    /\ opc' = IF is_playing THEN "print" ELSE "done"
    /\ UNCHANGED <<status, ring, mainv, cbv, sink, histv, errors>>

\* print!(.. frames_decoded.load(Relaxed) .. frames_played.load(Relaxed) ..);
\* flush; sleep(100_000)
ObserverPrint ==
    /\ Running
    /\ opc = "print"
    /\ opc' = "check"
    /\ UNCHANGED <<status, ring, mainv, cbv, sink, histv, errors>>

\* --------------------------------------------------------------------- Next

Main ==
    \/ OpenOk \/ OpenFail \/ StartOk \/ StartFail
    \/ StorePlaying \/ SpawnObserver
    \/ PacketSkipped \/ DecodeError \/ ResampleError \/ PacketFrame \/ PacketsEnd
    \/ FlushFrame \/ FlushEnd
    \/ SendLoop \/ SendSleep \/ SendPush \/ SendCount
    \/ MarkDecoding \/ MarkDecodingSpurious
    \/ StoreDecodingFalse \/ PollPlaying \/ PollSleep
    \/ JoinObserver \/ StopSink \/ CloseSink

Callback ==
    \/ CallbackPop \/ CallbackFrame \/ CallbackLoadDecoding
    \/ CallbackCheckEmpty \/ CallbackComplete

Observer == ObserverCheck \/ ObserverPrint

Next == Main \/ Callback \/ Observer

Spec == Init /\ [][Next]_vars

\* Each thread that can take a step eventually takes one: the operating
\* system schedules the main thread and the observer, and the sink keeps
\* invoking the callback until it returns Complete.
FairSpec == Spec /\ WF_vars(Main) /\ WF_vars(Callback) /\ WF_vars(Observer)

\* ------------------------------------------------------- shared vocabulary

\* Every sample of the frames handed to send_audio so far, in order.
Forwarded(n) == [i \in 1..n |-> SampleValue(i)]

\* The main thread is inside send_audio.
InSendAudio == pc \in {"sa_loop", "sa_sleep", "sa_push", "sa_add"}

\* The main thread has stored is_playing = true after a successful start.
Streaming == pc \notin {"open", "start", "store_playing", "panicked"}

\* The main thread has left its is_playing poll loop.
LeftPoll == pc \in {"join", "stop", "close", "done"}

\* The callback's loop over the frames has finished in the current or last
\* invocation.
LoopDone == calls > 0 /\ cpc \in {"idle", "load_decoding", "check_empty", "store_playing"}

\* The model stops invoking the callback after MaxCallbacks invocations; a run
\* that waits for the callback in that state says nothing about the program.
CallbacksCutOff == sink = "active" /\ calls = MaxCallbacks

\* -------------------------------------------------------------------- C1
\* C1: under fair scheduling, once the sink is started and is_playing = true
\* has been stored, the run always eventually reaches Stopped (is_playing
\* false, poll loop left, observer joined, sink stopped and closed), or the
\* process aborts.
C1_EventuallyStopped ==
    [](Streaming =>
        <>((pc = "done" /\ ~is_playing) \/ pc = "panicked" \/ CallbacksCutOff))

\* -------------------------------------------------------------------- C2
\* C2: whenever the callback has returned Complete, every sample of every
\* frame the decoder hands to send_audio has been pushed into the ring and
\* popped from it; the callback never completes while a frame is unpushed.
C2_CompleteOnlyWhenDrained ==
    result = "Complete" => (pushed = produced /\ Len(popped) = pushed)

\* -------------------------------------------------------------------- C3
\* C3: a callback invocation stores is_playing = false and returns Complete
\* if and only if it read is_decoding false, found the ring empty after the
\* pop, and popped 0 samples; every other invocation returns Continue, and no
\* other callback step writes is_playing.
C3_CompletionIff ==
    [][/\ (cpc # "idle" /\ cpc' = "idle") =>
            /\ result' \in {"Continue", "Complete"}
            /\ (result' = "Complete" /\ ~is_playing')
                 <=> (~dec_read' /\ empty_read' /\ recv_size' = 0)
            /\ result' = "Continue" => is_playing' = is_playing
       /\ (cbv' # cbv /\ cpc' # "idle") => is_playing' = is_playing]_vars

\* An invocation after earlier ones that returned Continue completes.
C3_Witness ==
    /\ result = "Complete"
    /\ calls > 1
    /\ Len(popped) > 0
    /\ ~dec_read /\ empty_read /\ recv_size = 0

\* -------------------------------------------------------------------- C4
\* C4: without resampling, once the main thread has left its poll loop,
\* frames_decoded equals the N frames the decoder produced, frames_played is
\* at least N, and is_playing is false.
C4_EndToEnd ==
    (~resample /\ LeftPoll) =>
        /\ frames_decoded * CHANNELS = produced
        /\ frames_played * CHANNELS >= produced
        /\ ~is_playing

\* -------------------------------------------------------------------- C5
\* C5: with a decoder that produces no frame, under fair scheduling the
\* main thread, once it has finished feeding, eventually leaves its poll loop
\* and tears down.
C5_EmptyStreamStops ==
    []((pc = "poll" /\ forwarded = 0) => <>(pc = "done" \/ CallbacksCutOff))

\* -------------------------------------------------------------------- C6
\* C6: except between a push_slice and the fetch_add that follows it,
\* frames_decoded * CHANNELS equals the number of samples pushed into the ring.
C6_DecodeAccounting ==
    pc # "sa_add" => frames_decoded * CHANNELS = pushed

\* A frame larger than the ring has gone through send_audio: it took partial
\* pushes and retries.
C6_Witness ==
    /\ pc = "cas"
    /\ Len(data) > BUFFER_SIZE
    /\ sent_size = Len(data)
    /\ frames_decoded * CHANNELS = produced

\* -------------------------------------------------------------------- C7
\* C7: when the callback's loop has run, frames_played is its value on entry
\* plus frames_per_buffer, whatever the pop returned.
C7_PlayedPerBuffer ==
    LoopDone => frames_played = fp_entry + FRAMES_PER_BUFFER

\* An invocation whose pop returned part of a buffer has returned.
C7_Witness ==
    /\ cpc = "idle"
    /\ result = "Continue"
    /\ 0 < recv_size /\ recv_size < FRAMES_PER_BUFFER * CHANNELS
    /\ frames_played > FRAMES_PER_BUFFER

\* -------------------------------------------------------------------- C8
\* C8: the samples popped so far, followed by the ring's contents and the
\* part of the current frame not yet pushed, are exactly the samples of the
\* forwarded frames in order; the ring never holds more than BUFFER_SIZE.
C8_FifoExactlyOnce ==
    /\ Len(ring) <= BUFFER_SIZE
    /\ popped \o ring = Forwarded(pushed)
    /\ popped \o ring \o SubSeq(data, sent_size + 1, Len(data)) = Forwarded(produced)

\* A retry of the remainder of a frame is pending while samples of it have
\* already been popped.
C8_Witness ==
    /\ pc = "sa_push"
    /\ slept
    /\ 0 < sent_size /\ sent_size < Len(data)
    /\ Len(popped) > BUFFER_SIZE
    /\ ring # <<>>

\* -------------------------------------------------------------------- C9
\* C9: under fair scheduling, send_audio entered with a frame larger than the
\* ring eventually returns with the whole frame pushed (stated for the first
\* frame of the stream, the single push of the scenario).
C9_BackpressureDrains ==
    []((InSendAudio /\ forwarded = 1 /\ Len(data) > BUFFER_SIZE) =>
        <>((pc = "cas" /\ sent_size = Len(data)) \/ CallbacksCutOff))

\* ------------------------------------------------------------------- C10
\* C10: when the callback's loop has run, each buffer position below
\* recv_size holds GAIN times the sample popped for it, and each position
\* from recv_size on holds 0.
C10_GainAndSilence ==
    LoopDone =>
        /\ Len(buffer) = FRAMES_PER_BUFFER * CHANNELS
        /\ \A i \in 1..Len(buffer) :
             IF i <= recv_size
             THEN buffer[i] * GAIN_DIVISOR = popped_now[i] /\ buffer[i] # 0
             ELSE buffer[i] = 0

\* A buffer holding both real samples and silence has been produced.
C10_Witness ==
    /\ LoopDone
    /\ recv_size = CHANNELS
    /\ buffer[1] # 0
    /\ buffer[Len(buffer)] = 0

\* ------------------------------------------------- vocabulary of the steps

\* A step of the main thread (Orchestrator and Feeder), of the callback, of
\* the observer thread: each changes variables only that thread changes.
MainStep == mainv' # mainv
CallbackStep == cbv' # cbv \/ calls' # calls
ObserverStep == opc' # opc /\ mainv' = mainv

\* The main thread is in the feed loop: packet loop, flush, send_audio.
Feeding == pc \in {"packets", "flush", "sa_loop", "sa_sleep", "sa_push", "sa_add", "cas"}

\* The main thread has executed status.is_decoding.store(false, Relaxed).
StoredDecodingFalse == pc \in {"poll", "poll_sleep", "join", "stop", "close", "done"}

\* The main thread panicked at the open or the start of the sink.
SetupFailed == pc = "panicked" /\ sink \in {"closed", "open"}

\* ------------------------------------------------------------------- C11
\* C11: frames_decoded and is_decoding change only in Feeder steps,
\* frames_played only in callback steps, is_playing only in the callback's
\* store of false and the Orchestrator's one store of true; an observer step
\* changes no status field and not the ring; the ring grows only in the
\* Feeder's push and shrinks only in the callback's pop.
C11_WriterDiscipline ==
    [][/\ (frames_decoded' # frames_decoded \/ is_decoding' # is_decoding)
            => (MainStep /\ ~CallbackStep /\ (Feeding \/ pc = "store_decoding"))
       /\ frames_played' # frames_played => (CallbackStep /\ ~MainStep)
       /\ is_playing' # is_playing
            => \/ (CallbackStep /\ cpc = "store_playing" /\ ~is_playing')
               \/ (MainStep /\ pc = "store_playing" /\ is_playing')
       /\ (pc' = "store_playing" /\ pc # "store_playing") => pc = "start"
       /\ ObserverStep => (status' = status /\ ring' = ring)
       /\ Len(ring') > Len(ring) => (MainStep /\ pc = "sa_push" /\ ~CallbackStep)
       /\ Len(ring') < Len(ring) => (CallbackStep /\ cpc = "idle" /\ ~MainStep)]_vars

\* All three threads have written: samples were pushed, counted, popped and
\* played, the observer has printed, and the callback has stored false.
C11_Witness ==
    /\ frames_decoded > 0
    /\ Len(popped) > 0
    /\ frames_played > 0
    /\ opc = "print"
    /\ result = "Complete"

\* ------------------------------------------------------------------- C12
\* C12: when opening or starting the sink fails the run has aborted on the
\* spot: no step follows, is_playing was never set, the observer was never
\* spawned, the callback never ran, no frame was decoded or pushed and
\* frames_decoded is 0.
C12_SetupFailureIsFatal ==
    /\ [](SetupFailed =>
            /\ ~is_playing /\ ~is_decoding
            /\ opc = "none"
            /\ calls = 0
            /\ forwarded = 0 /\ packets = 0 /\ pushed = 0 /\ ring = <<>>
            /\ frames_decoded = 0 /\ frames_played = 0)
    /\ [][~SetupFailed]_vars
    /\ [][pc' = "panicked" => pc \in {"open", "start"}]_vars

\* The sink was opened and its start failed.
C12_Witness == pc = "panicked" /\ sink = "open"

\* ------------------------------------------------------------------- C13
\* C13: a unit that fails to decode or to resample leaves the ring and the
\* four status fields unchanged and the main thread in the packet loop; the
\* frames decoded after it are pushed whole and in order.
C13_DecodeErrorNonFatal ==
    /\ [][errors' # errors =>
            /\ status' = status /\ ring' = ring
            /\ pc = "packets" /\ pc' = "packets"
            /\ forwarded' = forwarded /\ produced' = produced /\ pushed' = pushed]_vars
    /\ [](errors > 0 =>
            popped \o ring \o SubSeq(data, sent_size + 1, Len(data)) = Forwarded(produced))

\* After a failed unit a frame has gone through send_audio completely.
C13_Witness ==
    /\ errors > 0
    /\ pc = "cas"
    /\ Len(data) > 0
    /\ sent_size = Len(data)
    /\ pushed = produced

\* ------------------------------------------------------------------- C14
\* C14: once the callback has returned Complete, is_playing is false (the
\* Orchestrator's store of true cannot land after it).
C14_CompleteIsTerminal == result = "Complete" => ~is_playing

\* ------------------------------------------------------------------- C15
\* C15: once the compare-and-set after a forwarded frame has executed
\* (samples having been decoded), and until the final store of false,
\* is_decoding is true.
C15_DecodingSetAfterFrame ==
    (/\ Feeding \/ pc = "store_decoding"
     /\ forwarded >= 1 /\ frames_decoded > 0
     /\ forwarded >= 2 \/ pc \in {"packets", "flush", "store_decoding"})
        => is_decoding

\* ------------------------------------------------------------------- C16
\* C16: is_decoding goes from true to false only in the one store after the
\* packet loop and the flush; the store is reached only from the end of the
\* flush and never again; after it nothing is pushed and frames_decoded and
\* is_decoding stay as they are.
C16_DecodingFalseOnce ==
    /\ [][/\ (is_decoding /\ ~is_decoding') => (pc = "store_decoding" /\ pc' = "poll")
          /\ (pc' = "store_decoding" /\ pc # "store_decoding") => pc = "flush"
          /\ (pc' = "flush" /\ pc # "flush") => (pc = "packets" \/ (pc = "cas" /\ ret = "flush"))
          /\ StoredDecodingFalse =>
                /\ StoredDecodingFalse'
                /\ ~is_decoding'
                /\ frames_decoded' = frames_decoded
                /\ pushed' = pushed
                /\ Len(ring') <= Len(ring)]_vars
    /\ [](StoredDecodingFalse => ~is_decoding)

\* The store of false has turned a true is_decoding off, after a frame from
\* the packet loop and one from the flush.
C16_Witness ==
    /\ pc = "poll"
    /\ packets > 0 /\ flushes > 0
    /\ forwarded = 2
    /\ pushed > 0
    /\ ~is_decoding

\* ------------------------------------------------------------------- C17
\* C17: in send_audio every push attempt on a frame after the first one is
\* preceded by a sleep.
C17_SleepBeforeRetry == (pc = "sa_push" /\ attempted) => slept

\* ------------------------------------------------------------------- C18
\* C18: the sink is stopped and closed only after the Feeder has stored
\* is_decoding = false, the Orchestrator has read is_playing false, and the
\* observer has ended and been joined; the observer ends only on reading
\* is_playing false.
C18_TeardownOrder ==
    /\ [][/\ (sink' = "stopped" /\ sink # "stopped") =>
                (pc = "stop" /\ opc = "done" /\ ~is_playing /\ ~is_decoding)
          /\ (sink' = "closed" /\ sink # "closed") => (pc = "close" /\ sink = "stopped")
          /\ (pc' = "join" /\ pc # "join") => (pc = "poll" /\ ~is_playing)
          /\ (pc' = "stop" /\ pc # "stop") => (pc = "join" /\ opc = "done")
          /\ (opc' = "done" /\ opc # "done") => (opc = "check" /\ ~is_playing)]_vars
    /\ [](pc \in {"stop", "close", "done"} =>
            (opc = "done" /\ ~is_playing /\ ~is_decoding /\ cpc = "idle"
             /\ sink \in {"complete", "stopped", "closed"}))

\* A run that played samples has torn down completely.
C18_Witness ==
    /\ pc = "done"
    /\ sink = "closed"
    /\ opc = "done"
    /\ Len(popped) > 0

\* ------------------------------------------------------------------- C19
\* C19: every push accepts and every pop returns a multiple of CHANNELS
\* samples, the ring holds a multiple of CHANNELS, and neither assertion
\* fails (the only panics are the open and start failures).
C19_FrameAligned ==
    /\ current_size % CHANNELS = 0
    /\ sent_size % CHANNELS = 0
    /\ recv_size % CHANNELS = 0
    /\ Len(ring) % CHANNELS = 0
    /\ cpc # "panicked"
    /\ pc = "panicked" => sink \in {"closed", "open"}

\* A push was cut short by a ring that a pop had partly emptied.
C19_Witness ==
    /\ pc = "sa_add"
    /\ 0 < current_size /\ current_size < Len(data)
    /\ current_size < BUFFER_SIZE
    /\ sent_size > current_size
    /\ Len(popped) > 0

\* ------------------------------------------------------------------- C20
\* A run in which all N > 0 frames of the decoder were played, with no pop
\* falling short before the end of the stream, has completed.
CleanRunCompleted ==
    /\ LeftPoll
    /\ produced > 0
    /\ Len(popped) = produced
    /\ gap # "underrun"

\* C20 as stated: when such a run completes, frames_played - N is less than
\* frames_per_buffer.
C20_OverCountBelowOneBuffer ==
    CleanRunCompleted =>
        frames_played * CHANNELS - produced < FRAMES_PER_BUFFER * CHANNELS

\* C20 as amended: when such a run completes, frames_played - N is at least
\* frames_per_buffer (the pop of 0 samples that completion requires) and less
\* than twice frames_per_buffer.
C20_OverCountBelowTwoBuffers ==
    CleanRunCompleted =>
        /\ frames_played * CHANNELS - produced >= FRAMES_PER_BUFFER * CHANNELS
        /\ frames_played * CHANNELS - produced < 2 * FRAMES_PER_BUFFER * CHANNELS

\* A clean run whose last data pop was partial has completed.
C20_Witness ==
    /\ CleanRunCompleted
    /\ pc = "done"
    /\ calls > 2
    /\ produced % (FRAMES_PER_BUFFER * CHANNELS) # 0

====
